---- MODULE Spec2Model ----
(***************************************************************************)
(* Model of cmd/meta_p2: the read-pairing, codon-comparison and            *)
(* lag-covariance pipeline of main.go; of cmd/collect_genes; and of fitExp *)
(* of cmd/meta.                                                            *)
(*                                                                         *)
(* The specifications below share the variables and definitions:           *)
(*   SpecCompare  compareMappedReads followed by calc on one pair of reads *)
(*   SpecPairer   the slideReads -> compare -> calc stages on one batch    *)
(*   SpecSorted   SpecPairer on batches sorted by position                 *)
(*   SpecProject  SpecPairer on records with a CIGAR, through Map2Ref      *)
(*   Spec         reader, worker pool, closer and collect                  *)
(*   FairSpec     Spec under the fairness of the goroutine scheduler       *)
(*   SpecGenes    collect_genes: main and the readers of readCorrResults   *)
(*   FairGenes    SpecGenes under the fairness of the goroutine scheduler  *)
(*   SpecFit      fitExp of fit_genomes.go                                 *)
(*   FairFit      SpecFit under the fairness of the goroutine scheduler    *)
(***************************************************************************)
EXTENDS Integers, Sequences, FiniteSets, Bags, TLC

VARIABLES
    \* ---- one call of compareMappedReads followed by calc (SpecCompare)
    pa,          \* MappedRead a
    pb,          \* MappedRead b
    pmaxl,       \* maxl handed to calc
    ph,          \* "start" | "compared" | "done" | "panic" | "off"
    subProfile,  \* the SubProfile returned by compareMappedReads
    pcovs,       \* calc's covs after the profile was consumed
    incLog,      \* every covs[l].Increment calc made: <<i, j, l>>
    \* ---- the stages of one worker's batch, per worker
    maxl,           \* --maxl
    records,        \* the batch the worker received
    sPc,            \* slideReads goroutine: "off" | "loop" | "send" | "closed"
    sIdx,           \* index of the record the range loop of slideReads is at
    mappedReadArr,  \* the window of slideReads
    totalDiscards,
    totalUsed,
    cPc,            \* compare goroutine: "off" | "recv" | "pair" | "closed"
    reads,          \* the window compare received last
    cJ,             \* j of compare
    covs,           \* covs of calc
    emitted,        \* the pairs handed to compareMappedReads: <<index of a, index of b>>
    wPc,            \* worker: "off" | "recv" | "calc" | "sendcovs" | "senddone" | "exit"
    crashed,        \* a panic ended the process
    \* ---- reader, worker pool, closer and collect (Spec)
    file,           \* the records of the alignment file
    rPc,            \* readBamFile goroutine: "off" | "read" | "send" | "sendlast" | "closed"
    currentRefID,
    rRecords,       \* records of readBamFile
    rRec,           \* the record read last, while the send of line 354 blocks
    nRead,          \* records read so far
    doneCount,      \* values received from done by the goroutine of lines 99-104
    covsClosed,     \* covsChan is closed
    colPc,          \* collect: "off" | "range" | "fold" | "returned"
    meanVars,       \* per lag, the values folded so far, in the order of arrival
    nSent,          \* batches sent on recordsChan
    batchOf,        \* per worker, the number of the batch it received last
    foldOrder,      \* the numbers of the batches whose covs collect folded, in order
    sent,           \* history: the batches handed to the workers, in order
    covsId,         \* per worker, the array that calc allocated last (line 210)
    colCovs,        \* the covs collect received and folds: <<[id, batch, cv]>>, or <<>>
    readErr,        \* os.Open or reader.Read failed: readBamFile panics
    out,            \* the lines of the output file; <<>> while write has not run
    \* ---- collect_genes: main and the goroutines of readCorrResults
    samples,        \* per sample, the correlation file that readCorrResults reads
    gPc,            \* main: "off" | "loop" | "range" | "written"
    gIdx,           \* the number of samples whose range loop main has entered
    gRd,            \* per sample, its reading goroutine: "off" | "decode" | "send" | "exit"
    gPos,           \* per sample, the number of records decoded and delivered
    collectorMap,   \* per gene id, the records added to its Collector
    gOut,           \* the lines of the output file; <<>> before line 49
    gCrashed,       \* log.Panic ended the process
    \* ---- fitExp: the producer of jobs, the workers, the closer and the caller
    results,        \* the argument results
    fitStart,
    fitEnd,
    fJob,           \* the number of jobs sent on jobs
    jobsClosed,
    fPc,            \* per worker: "off" | "recv" | "send" | "senddone" | "exit"
    fr,             \* per worker, the FitResult it computed and the index of its job
    fDone,          \* values received from done by the goroutine of lines 94-99
    fitResClosed,
    fMain,          \* the caller: "off" | "range" | "returned"
    fitResults,     \* the return value
    fSrc,           \* per element of fitResults, the index of the job it came from
    fCrashed        \* a panic ended the process

cvars == <<pa, pb, pmaxl, ph, subProfile, pcovs, incLog>>

svars == <<records, sPc, sIdx, mappedReadArr, totalDiscards, totalUsed,
           cPc, reads, cJ, covs, emitted>>

rvars == <<file, rPc, currentRefID, rRecords, rRec, nRead>>

gvars == <<doneCount, covsClosed, colPc, meanVars>>

hvars == <<nSent, batchOf, foldOrder, sent>>

ovars == <<covsId, colCovs, readErr, out>>

pvars == <<rvars, gvars, hvars, ovars>>

genevars == <<samples, gPc, gIdx, gRd, gPos, collectorMap, gOut, gCrashed>>

fitvars == <<results, fitStart, fitEnd, fJob, jobsClosed, fPc, fr, fDone,
             fitResClosed, fMain, fitResults, fSrc, fCrashed>>

tvars == <<genevars, fitvars>>

vars == <<cvars, maxl, svars, wPc, crashed, pvars, tvars>>

-----------------------------------------------------------------------------
(* Program constants and model bounds *)

\* default of --minbq
MINBQ == 13
\* default of --minmq
MINMQ == 30
\* math.NaN(), the "missing" observation
NaN == -1

\* largest reference position of a read in SpecCompare
MaxPos == 2
\* longest read of the gap-only family of SpecCompare
MaxSeqLen == 6
\* largest maxl
MaxL == 2
\* number of workers (--ncpu)
NCPU == 2
\* largest reference position of a record in SpecPairer
MaxRecPos == 3
\* most records of a batch in SpecPairer
MaxReads == 3
\* longest read of a record in SpecPairer
MaxReadLen == 2
\* the most records of a sorted batch
MaxSorted == 4
\* the most alignment operations of a record, and the most each spans
MaxCigarOps == 2
MaxOpLen == 2
\* most references (batches) of the alignment file in Spec
MaxBatches == 2

\* the samples read by collect_genes are at most
MaxSamples == 2

\* the correlation records of one sample are at most
MaxCorrRecs == 2

\* the CovResults handed to fitExp are at most
MaxJobs == 2

\* Ct and CtIndices of a CovResult have at most this many entries
MaxCt == 2

\* Ks of a CovResult is one of 1..MaxKs
MaxKs == 2

Workers == 1..NCPU

-----------------------------------------------------------------------------
(* Small helpers *)

Range(s) == {s[k] : k \in 1..Len(s)}

\* F(a), with a evaluated once, before F is applied (TLC evaluates the
\* arguments of an operator anew at each of their uses)
Strictly(F(_), a) == CHOOSE y \in {F(v) : v \in {a}} : TRUE

\* s[lo:hi] of Go, on a 1-based TLA+ sequence holding s[0], s[1], ...
Slice(s, lo, hi) == [k \in 1..(hi - lo) |-> s[lo + k]]

-----------------------------------------------------------------------------
(* MappedRead *)

MappedRead(pos, seq, qual) == [Pos |-> pos, Seq |-> seq, Qual |-> qual]

\* the MappedRead slideReads makes of record number rec of its batch
WindowRead(pos, sq, rec) ==
    [Pos |-> pos, Seq |-> sq[1], Qual |-> sq[2], rec |-> rec]

\* func (m MappedRead) Len() int
ReadLen(m) == Len(m.Seq)

-----------------------------------------------------------------------------
(* The genetic code, table 11 (taxonomy.GeneticCodes()["11"]).  A codon    *)
(* that is not a key of the Go map yields the zero value of the map.      *)

BaseIndex(b) ==
    CASE b = "T" -> 0
      [] b = "C" -> 1
      [] b = "A" -> 2
      [] b = "G" -> 3
      [] OTHER -> -1

AminoAcids ==
    << "F","F","L","L", "S","S","S","S", "Y","Y","*","*", "C","C","*","W",
       "L","L","L","L", "P","P","P","P", "H","H","Q","Q", "R","R","R","R",
       "I","I","I","M", "T","T","T","T", "N","N","K","K", "S","S","R","R",
       "V","V","V","V", "A","A","A","A", "D","D","E","E", "G","G","G","G" >>

ZeroAA == ""

InTable(codon) == \A k \in 1..3 : BaseIndex(codon[k]) >= 0

\* codeTable.Table[codon]
TableLookup(codon) ==
    IF InTable(codon)
    THEN AminoAcids[16 * BaseIndex(codon[1]) + 4 * BaseIndex(codon[2])
                    + BaseIndex(codon[3]) + 1]
    ELSE ZeroAA

-----------------------------------------------------------------------------
(* isATGC *)

isATGC(b) ==
    IF b = "A" THEN TRUE
    ELSE IF b = "T" THEN TRUE
    ELSE IF b = "C" THEN TRUE
    ELSE IF b = "G" THEN TRUE
    ELSE FALSE

-----------------------------------------------------------------------------
(* compareMappedReads.  Index k of a Go slice is index k + 1 here.  Each   *)
(* profile entry carries, next to the observation d, the reference         *)
(* position pos it was evaluated at; the Go profile holds d alone.  An     *)
(* index or slice bound outside the read is a run-time panic.             *)

\* the observation at offset i of a and offset j of b (lines 172-186);
\* panic: the index a.Seq[i] or the slice a.Seq[i-2 : i+1] is out of range
Observe(a, b, i, j) ==
    IF i < 0 THEN [panic |-> TRUE, d |-> NaN]
    ELSE IF isATGC(a.Seq[i + 1]) /\ isATGC(b.Seq[j + 1])
    THEN IF a.Qual[i + 1] > MINBQ /\ b.Qual[j + 1] > MINBQ
         THEN IF i - 2 < 0 THEN [panic |-> TRUE, d |-> NaN]
              ELSE LET codonA == Slice(a.Seq, i - 2, i + 1)
                       codonB == Slice(b.Seq, j - 2, j + 1)
                       aaA == TableLookup(codonA)
                       aaB == TableLookup(codonB)
                   IN  IF aaA = aaB
                       THEN IF a.Seq[i + 1] # b.Seq[j + 1]
                            THEN [panic |-> FALSE, d |-> 1]
                            ELSE [panic |-> FALSE, d |-> 0]
                       ELSE [panic |-> FALSE, d |-> NaN]
         ELSE [panic |-> FALSE, d |-> NaN]
    ELSE [panic |-> FALSE, d |-> NaN]

\* Evaluated with the offset bound off by one
EvaluatedOffByOne(pos, j) == (pos + 1) % 3 = 0 /\ j > 2

\* the guard of line 171
Evaluated(pos, j) == (pos + 1) % 3 = 0 /\ j > 1

\* the loop of lines 167-190 from offset j on, subs being the profile so far
RECURSIVE CompareLoop(_, _, _, _)
CompareLoop(a, b, j, subs) ==
    LET lag == b.Pos - a.Pos
    IN  IF j < ReadLen(a) - lag /\ j < ReadLen(b)
        THEN LET i == j + lag
                 pos == j + b.Pos
             IN  IF Evaluated(pos, j)
                 THEN LET o == Observe(a, b, i, j)
                      IN  IF o.panic THEN [panic |-> TRUE, subs |-> subs]
                          ELSE CompareLoop(a, b, j + 1,
                                           Append(subs, [pos |-> pos, d |-> o.d]))
                 ELSE CompareLoop(a, b, j + 1, subs)
        ELSE [panic |-> FALSE, subs |-> subs]

\* SubProfile{Pos: b.Pos, Profile: subs}, or the panic that ended the call
compareMappedReads(a, b) ==
    LET r == CompareLoop(a, b, 0, <<>>)
    IN  [panic |-> r.panic, Pos |-> b.Pos, Profile |-> r.subs]

-----------------------------------------------------------------------------
(* correlation.BivariateCovariance: n and the running sums that determine  *)
(* the means and the co-moment.  GetResult is coMoment / n, the fraction   *)
(* <<num, den>>; with n = 0 it is 0/0, not a number.                       *)

NewBivariateCovariance == [n |-> 0, sx |-> 0, sy |-> 0, sxy |-> 0]

Increment(c, x, y) ==
    [n |-> c.n + 1, sx |-> c.sx + x, sy |-> c.sy + y, sxy |-> c.sxy + x * y]

\* GetResult of an accumulator made by NewBivariateCovariance(true): the
\* divisor is n - 1
GetResultBiasCorrected(c) == <<c.n * c.sxy - c.sx * c.sy, c.n * (c.n - 1)>>

GetResult(c) == <<c.n * c.sxy - c.sx * c.sy, c.n * c.n>>

IsNaN(v) == v[2] = 0

\* covs after the loop of lines 211-213
\* NewCovs with the loop of line 211 running to i <= maxl
NewCovsInclusive(m) == [l \in 1..(m + 1) |-> NewBivariateCovariance]

NewCovs(m) == [l \in 1..m |-> NewBivariateCovariance]

-----------------------------------------------------------------------------
(* calc, for one received profile.  st.covs is covs (covs[l] of Go is      *)
(* st.covs[l + 1]); st.log lists the increments made, <<i, j, l>>.         *)

\* the loop of lines 220-232 from j on
RECURSIVE CalcInner(_, _, _, _)
CalcInner(st, sp, i, j) ==
    IF j < Len(sp.Profile)
    THEN LET pos1 == sp.Pos + i
             pos2 == sp.Pos + j
             l == pos2 - pos1
             x == sp.Profile[i + 1].d
             y == sp.Profile[j + 1].d
         IN  IF l >= Len(st.covs) THEN st
             ELSE IF y # NaN
             THEN Strictly(LAMBDA v : CalcInner(v, sp, i, j + 1),
                           [covs |-> [st.covs EXCEPT ![l + 1] = Increment(@, x, y)],
                            log |-> Append(st.log, <<i, j, l>>)])
             ELSE CalcInner(st, sp, i, j + 1)
    ELSE st

\* the loop of lines 216-235 from i on
RECURSIVE CalcOuter(_, _, _)
CalcOuter(st, sp, i) ==
    IF i < Len(sp.Profile)
    THEN IF sp.Profile[i + 1].d # NaN
         THEN Strictly(LAMBDA v : CalcOuter(v, sp, i + 1), CalcInner(st, sp, i, i))
         ELSE CalcOuter(st, sp, i + 1)
    ELSE st

CalcProfile(st, sp) ==
    Strictly(LAMBDA v : CalcOuter(v[1], v[2], 0), <<st, sp>>)

-----------------------------------------------------------------------------
(* SpecCompare: one pair of reads a, b with a.Pos <= b.Pos goes through    *)
(* compareMappedReads and the profile through calc.  Two families of       *)
(* pairs: codon reads (3 bases over Bases, every quality pattern of the    *)
(* site) at one position, and longer reads of A with at most one deletion  *)
(* placeholder at every pair of positions.                                 *)

Bases == {"A", "G", "T", "*"}
Quals == {MINBQ, MINBQ + 1}

ConstSeq(n, v) == [k \in 1..n |-> v]

CodonReads ==
    {MappedRead(0, s, ConstSeq(3, q)) : s \in [1..3 -> Bases], q \in Quals}

\* A^n with at most one "*"
GapSeqs(n) ==
    {ConstSeq(n, "A")} \cup
    {[k \in 1..n |-> IF k = g THEN "*" ELSE "A"] : g \in 1..n}

GapReads ==
    UNION {{MappedRead(p, s, ConstSeq(n, MINBQ + 1)) : s \in GapSeqs(n), p \in 0..MaxPos}
           : n \in 0..MaxSeqLen}

\* no worker runs
OffWorkers ==
    /\ maxl = 0
    /\ records = [w \in Workers |-> <<>>]
    /\ sPc = [w \in Workers |-> "off"]
    /\ sIdx = [w \in Workers |-> 1]
    /\ mappedReadArr = [w \in Workers |-> <<>>]
    /\ totalDiscards = [w \in Workers |-> 0]
    /\ totalUsed = [w \in Workers |-> 0]
    /\ cPc = [w \in Workers |-> "off"]
    /\ reads = [w \in Workers |-> <<>>]
    /\ cJ = [w \in Workers |-> 0]
    /\ covs = [w \in Workers |-> <<>>]
    /\ emitted = [w \in Workers |-> <<>>]
    /\ wPc = [w \in Workers |-> "off"]
    /\ crashed = FALSE

\* no reader, closer or collect runs
OffPipeline ==
    /\ file = <<>>
    /\ rPc = "off"
    /\ currentRefID = -1
    /\ rRecords = <<>>
    /\ rRec = <<>>
    /\ nRead = 0
    /\ doneCount = 0
    /\ covsClosed = FALSE
    /\ colPc = "off"
    /\ meanVars = <<>>
    /\ nSent = 0
    /\ batchOf = [w \in Workers |-> 0]
    /\ foldOrder = <<>>
    /\ sent = <<>>
    /\ covsId = [w \in Workers |-> 0]
    /\ colCovs = <<>>
    /\ readErr = FALSE
    /\ out = <<>>

\* collect_genes does not run
OffGenes ==
    /\ samples = <<>>
    /\ gPc = "off"
    /\ gIdx = 0
    /\ gRd = <<>>
    /\ gPos = <<>>
    /\ collectorMap = <<>>
    /\ gOut = <<>>
    /\ gCrashed = FALSE

\* fitExp does not run
OffFit ==
    /\ results = <<>>
    /\ fitStart = 0
    /\ fitEnd = 0
    /\ fJob = 0
    /\ jobsClosed = FALSE
    /\ fPc = [w \in Workers |-> "off"]
    /\ fr = [w \in Workers |-> <<>>]
    /\ fDone = 0
    /\ fitResClosed = FALSE
    /\ fMain = "off"
    /\ fitResults = <<>>
    /\ fSrc = <<>>
    /\ fCrashed = FALSE

InitCompare ==
    /\ OffGenes
    /\ OffFit
    /\ \/ /\ pa \in CodonReads
          /\ pb \in CodonReads
          /\ pmaxl = MaxL
       \/ /\ pa \in GapReads
          /\ pb \in GapReads
          /\ pa.Pos <= pb.Pos
          /\ pmaxl \in 0..MaxL
    /\ ph = "start"
    /\ subProfile = [panic |-> FALSE, Pos |-> 0, Profile |-> <<>>]
    /\ pcovs = <<>>
    /\ incLog = <<>>
    /\ OffWorkers
    /\ OffPipeline

\* profile := compareMappedReads(a, b, codeTable)
DoCompare ==
    /\ ph = "start"
    /\ subProfile' = compareMappedReads(pa, pb)
    /\ ph' = IF subProfile'.panic THEN "panic" ELSE "compared"
    /\ UNCHANGED <<pa, pb, pmaxl, pcovs, incLog>>
    /\ UNCHANGED <<maxl, svars, wPc, crashed, pvars, tvars>>

\* covs := calc(profileChan, maxl), the channel delivering this one profile
DoCalc ==
    /\ ph = "compared"
    /\ LET st == CalcProfile([covs |-> NewCovs(pmaxl), log |-> <<>>], subProfile)
       IN  /\ pcovs' = st.covs
           /\ incLog' = st.log
    /\ ph' = "done"
    /\ UNCHANGED <<pa, pb, pmaxl, subProfile>>
    /\ UNCHANGED <<maxl, svars, wPc, crashed, pvars, tvars>>

NextCompare == DoCompare \/ DoCalc

SpecCompare == InitCompare /\ [][NextCompare]_vars

-----------------------------------------------------------------------------
(* sam.Record and Map2Ref.  A record is [RefID, MapQ, Pos, Cigar, Seq,     *)
(* Qual]; Cigar is a sequence of [op, len].                                *)

SamRecord(ref, mapq, pos, cigar, seq, qual) ==
    [RefID |-> ref, MapQ |-> mapq, Pos |-> pos, Cigar |-> cigar,
     Seq |-> seq, Qual |-> qual]

\* bytes.ToUpper on one byte
ToUpper(b) ==
    CASE b = "a" -> "A"
      [] b = "c" -> "C"
      [] b = "g" -> "G"
      [] b = "t" -> "T"
      [] b = "n" -> "N"
      [] OTHER -> b

\* Deleted padding the bases only
DeletedBasesOnly(n) == <<[x \in 1..n |-> "*"], <<>>>>

\* lines 383-386: the bases and qualities appended for n deleted or skipped
\* reference positions
Deleted(n) == <<[x \in 1..n |-> "*"], [x \in 1..n |-> 0]>>

\* the loop of lines 375-389 from cigar operation k on; p, s, q as in the code
RECURSIVE Map2RefLoop(_, _, _, _, _)
Map2RefLoop(r, k, p, s, q) ==
    IF k > Len(r.Cigar) THEN <<s, q>>
    ELSE LET c == r.Cigar[k]
         IN  CASE c.op \in {"M", "X", "="} ->
                      Map2RefLoop(r, k + 1, p + c.len,
                                  s \o Slice(r.Seq, p, p + c.len),
                                  q \o Slice(r.Qual, p, p + c.len))
               [] c.op \in {"I", "S", "H"} ->
                      Map2RefLoop(r, k + 1, p + c.len, s, q)
               [] c.op \in {"D", "N"} ->
                      Map2RefLoop(r, k + 1, p,
                                  s \o Deleted(c.len)[1],
                                  q \o Deleted(c.len)[2])
               [] OTHER -> Map2RefLoop(r, k + 1, p, s, q)

Map2Ref(r) ==
    LET sq == Map2RefLoop(r, 1, 0, <<>>, <<>>)
    IN  <<[k \in 1..Len(sq[1]) |-> ToUpper(sq[1][k])], sq[2]>>

-----------------------------------------------------------------------------
(* slideReads: the goroutine of lines 114-138 of worker w *)

\* Passes without the lower bound
PassesNoLowerBound(r) == r.MapQ < 51

\* the filter of line 121
Passes(r) == r.MapQ > MINMQ /\ r.MapQ < 51

\* line 128: the head a of the window ended before current
Expired(a, current) == a.Pos + ReadLen(a) < current.Pos

\* one iteration of the range loop, up to the send of line 129
SlideNext(w) ==
    /\ ~crashed
    /\ sPc[w] = "loop"
    /\ sIdx[w] <= Len(records[w])
    /\ LET r == records[w][sIdx[w]]
       IN  IF Passes(r)
           THEN LET current == WindowRead(r.Pos, Map2Ref(r), sIdx[w])
                    arr == Append(mappedReadArr[w], current)
                IN  /\ mappedReadArr' = [mappedReadArr EXCEPT ![w] = arr]
                    /\ IF Len(arr) > 0 /\ Expired(arr[1], current)
                       THEN /\ sPc' = [sPc EXCEPT ![w] = "send"]
                            /\ UNCHANGED <<sIdx, totalUsed>>
                       ELSE /\ totalUsed' = [totalUsed EXCEPT ![w] = @ + 1]
                            /\ sIdx' = [sIdx EXCEPT ![w] = @ + 1]
                            /\ UNCHANGED sPc
                    /\ UNCHANGED totalDiscards
           ELSE /\ totalDiscards' = [totalDiscards EXCEPT ![w] = @ + 1]
                /\ sIdx' = [sIdx EXCEPT ![w] = @ + 1]
                /\ UNCHANGED <<mappedReadArr, sPc, totalUsed>>
    /\ UNCHANGED <<tvars, cvars, maxl, records, cPc, reads, cJ, covs, emitted, wPc, crashed, pvars>>

\* mappedReadArrChan <- mappedReadArr meets the receive of compare (line
\* 147); then lines 130 and 133
SlideSend(w) ==
    /\ ~crashed
    /\ sPc[w] = "send"
    /\ cPc[w] = "recv"
    /\ reads' = [reads EXCEPT ![w] = mappedReadArr[w]]
    /\ cJ' = [cJ EXCEPT ![w] = 1]
    /\ cPc' = [cPc EXCEPT ![w] = "pair"]
    /\ mappedReadArr' = [mappedReadArr EXCEPT ![w] = Tail(@)]
    /\ totalUsed' = [totalUsed EXCEPT ![w] = @ + 1]
    /\ sIdx' = [sIdx EXCEPT ![w] = @ + 1]
    /\ sPc' = [sPc EXCEPT ![w] = "loop"]
    /\ UNCHANGED <<tvars, cvars, maxl, records, totalDiscards, covs, emitted, wPc, crashed, pvars>>

\* the loop is over: defer close(mappedReadArrChan)
SlideClose(w) ==
    /\ ~crashed
    /\ sPc[w] = "loop"
    /\ sIdx[w] > Len(records[w])
    /\ sPc' = [sPc EXCEPT ![w] = "closed"]
    /\ UNCHANGED <<tvars, cvars, maxl, records, sIdx, mappedReadArr, totalDiscards,
                   totalUsed, cPc, reads, cJ, covs, emitted, wPc, crashed, pvars>>

-----------------------------------------------------------------------------
(* compare: the goroutine of lines 145-158 of worker w.  The send of the   *)
(* profile on resChan meets the receive of calc (line 215), which consumes *)
(* the profile before it receives again.                                   *)

\* PastSpan one position too late
PastSpanOffByOne(a, b) == b.Pos > ReadLen(a) + a.Pos + 1

\* the break of line 151
PastSpan(a, b) == b.Pos > ReadLen(a) + a.Pos

\* one iteration of the loop over j
ComparePair(w) ==
    /\ ~crashed
    /\ cPc[w] = "pair"
    /\ IF cJ[w] < Len(reads[w])
       THEN LET a == reads[w][1]
                b == reads[w][cJ[w] + 1]
            IN  IF PastSpan(a, b)
                THEN /\ cPc' = [cPc EXCEPT ![w] = "recv"]
                     /\ UNCHANGED <<cJ, covs, emitted, crashed>>
                ELSE \E profile \in {compareMappedReads(a, b)} :
                         /\ emitted' = [emitted EXCEPT ![w] = Append(@, <<a.rec, b.rec>>)]
                         /\ crashed' = profile.panic
                         /\ covs' = IF profile.panic THEN covs
                                    ELSE [covs EXCEPT ![w] =
                                            CalcProfile([covs |-> @, log |-> <<>>],
                                                        profile).covs]
                         /\ cJ' = [cJ EXCEPT ![w] = @ + 1]
                         /\ UNCHANGED cPc
       ELSE /\ cPc' = [cPc EXCEPT ![w] = "recv"]
            /\ UNCHANGED <<cJ, covs, emitted, crashed>>
    /\ UNCHANGED <<tvars, cvars, maxl, records, sPc, sIdx, mappedReadArr, totalDiscards,
                   totalUsed, reads, wPc, pvars>>

\* mappedReadArrChan is closed and drained: defer close(resChan)
CompareClose(w) ==
    /\ ~crashed
    /\ cPc[w] = "recv"
    /\ sPc[w] = "closed"
    /\ cPc' = [cPc EXCEPT ![w] = "closed"]
    /\ UNCHANGED <<tvars, cvars, maxl, records, sPc, sIdx, mappedReadArr, totalDiscards,
                   totalUsed, reads, cJ, covs, emitted, wPc, crashed, pvars>>

\* CalcReturn before resChan is closed
CalcReturnEarly(w) ==
    /\ ~crashed
    /\ wPc[w] = "calc"
    /\ wPc' = [wPc EXCEPT ![w] = "sendcovs"]
    /\ UNCHANGED <<tvars, cvars, maxl, svars, crashed, pvars>>

\* resChan is closed and drained: calc returns covs (line 237)
CalcReturn(w) ==
    /\ ~crashed
    /\ wPc[w] = "calc"
    /\ cPc[w] = "closed"
    /\ wPc' = [wPc EXCEPT ![w] = "sendcovs"]
    /\ UNCHANGED <<tvars, cvars, maxl, svars, crashed, pvars>>

Stages(w) ==
    \/ SlideNext(w)
    \/ SlideSend(w)
    \/ SlideClose(w)
    \/ ComparePair(w)
    \/ CompareClose(w)
    \/ CalcReturn(w)

-----------------------------------------------------------------------------
(* SpecPairer: worker 1 has received one batch and runs lines 90-92 on     *)
(* it.  The batch is any sequence, sorted or not, of at most MaxReads      *)
(* records: records that pass the filter at every position and length,     *)
(* and one record for each way of failing it.                              *)

PlainRecord(ref, mapq, pos, n) ==
    SamRecord(ref, mapq, pos, <<[op |-> "M", len |-> n]>>,
              ConstSeq(n, "A"), ConstSeq(n, MINBQ + 1))

PairerRecords ==
    {PlainRecord(0, MINMQ + 1, p, n) : p \in 0..MaxRecPos, n \in 1..MaxReadLen}
    \cup {PlainRecord(0, q, 0, 1) : q \in {MINMQ - 1, MINMQ, 51}}

Batches == UNION {[1..n -> PairerRecords] : n \in 0..MaxReads}

OffCompare ==
    /\ pa = MappedRead(0, <<>>, <<>>)
    /\ pb = MappedRead(0, <<>>, <<>>)
    /\ pmaxl = 0
    /\ ph = "off"
    /\ subProfile = [panic |-> FALSE, Pos |-> 0, Profile |-> <<>>]
    /\ pcovs = <<>>
    /\ incLog = <<>>

\* the stage variables of the workers of W running on batch, the others off
StagesStarted(W, batch) ==
    /\ records = [w \in Workers |-> IF w \in W THEN batch ELSE <<>>]
    /\ sPc = [w \in Workers |-> IF w \in W THEN "loop" ELSE "off"]
    /\ sIdx = [w \in Workers |-> 1]
    /\ mappedReadArr = [w \in Workers |-> <<>>]
    /\ totalDiscards = [w \in Workers |-> 0]
    /\ totalUsed = [w \in Workers |-> 0]
    /\ cPc = [w \in Workers |-> IF w \in W THEN "recv" ELSE "off"]
    /\ reads = [w \in Workers |-> <<>>]
    /\ cJ = [w \in Workers |-> 0]
    /\ covs = [w \in Workers |-> IF w \in W THEN NewCovs(maxl) ELSE <<>>]
    /\ emitted = [w \in Workers |-> <<>>]

InitPairer ==
    /\ OffCompare
    /\ OffGenes
    /\ OffFit
    /\ maxl = MaxL
    /\ \E batch \in Batches : StagesStarted({1}, batch)
    /\ wPc = [w \in Workers |-> IF w = 1 THEN "calc" ELSE "off"]
    /\ crashed = FALSE
    /\ OffPipeline

NextPairer == Stages(1)

SpecPairer == InitPairer /\ [][NextPairer]_vars

-----------------------------------------------------------------------------
(* SpecSorted: as SpecPairer, on a batch of at most MaxSorted records that *)
(* pass the filter and are sorted by position.                             *)

SortedBatches ==
    {b \in UNION {[1..n -> {r \in PairerRecords : Passes(r)}] : n \in 0..MaxSorted} :
        \A i \in 1..(Len(b) - 1) : b[i].Pos <= b[i + 1].Pos}

InitSorted ==
    /\ OffCompare
    /\ OffGenes
    /\ OffFit
    /\ maxl = MaxL
    /\ \E batch \in SortedBatches : StagesStarted({1}, batch)
    /\ wPc = [w \in Workers |-> IF w = 1 THEN "calc" ELSE "off"]
    /\ crashed = FALSE
    /\ OffPipeline

SpecSorted == InitSorted /\ [][NextPairer]_vars

-----------------------------------------------------------------------------
(* SpecProject: as SpecPairer, on a batch of one record with any alignment *)
(* of at most MaxCigarOps operations, followed by a record past its span.  *)
(* The record has one quality per base and as many bases as its            *)
(* operations consume (lines 379 and 381), or one more.                    *)

CigarOps ==
    {[op |-> o, len |-> n] : o \in {"M", "X", "=", "I", "S", "H", "D", "N", "P"},
                             n \in 1..MaxOpLen}

Cigars == UNION {[1..n -> CigarOps] : n \in 1..MaxCigarOps}

\* the read bases that lines 377-381 step over
RECURSIVE Consumed(_)
Consumed(cigar) ==
    IF cigar = <<>> THEN 0
    ELSE (IF Head(cigar).op \in {"M", "X", "=", "I", "S", "H"} THEN Head(cigar).len ELSE 0)
         + Consumed(Tail(cigar))

CigarRecords ==
    {SamRecord(0, MINMQ + 1, 0, c,
               [k \in 1..(Consumed(c) + extra) |-> IF k % 2 = 1 THEN "a" ELSE "G"],
               [k \in 1..(Consumed(c) + extra) |-> MINBQ + k]) :
        c \in Cigars, extra \in 0..1}

InitProject ==
    /\ OffCompare
    /\ OffGenes
    /\ OffFit
    /\ maxl = MaxL
    /\ \E r \in CigarRecords :
           StagesStarted({1}, <<r, PlainRecord(0, MINMQ + 1,
                                               MaxCigarOps * MaxOpLen + 1, 1)>>)
    /\ wPc = [w \in Workers |-> IF w = 1 THEN "calc" ELSE "off"]
    /\ crashed = FALSE
    /\ OffPipeline

SpecProject == InitProject /\ [][NextPairer]_vars

-----------------------------------------------------------------------------
(* Lines 90-92 on one batch, run through in the order of the code with     *)
(* every hand-over taken at once: the covs that calc returns.              *)

\* compare on one window, from j on
RECURSIVE RunCompare(_, _, _)
RunCompare(rs, j, cv) ==
    IF j < Len(rs)
    THEN IF PastSpan(rs[1], rs[j + 1]) THEN cv
         ELSE Strictly(LAMBDA v : RunCompare(rs, j + 1, v),
                       CalcProfile([covs |-> cv, log |-> <<>>],
                                   compareMappedReads(rs[1], rs[j + 1])).covs)
    ELSE cv

\* slideReads from record k on, arr being the window
RECURSIVE RunSlide(_, _, _, _)
RunSlide(batch, k, arr, cv) ==
    IF k > Len(batch) THEN cv
    ELSE IF Passes(batch[k])
    THEN Strictly(LAMBDA arr2 :
                      IF Expired(arr2[1], arr2[Len(arr2)])
                      THEN Strictly(LAMBDA v : RunSlide(batch, k + 1, Tail(arr2), v),
                                    RunCompare(arr2, 1, cv))
                      ELSE RunSlide(batch, k + 1, arr2, cv),
                  Append(arr, WindowRead(batch[k].Pos, Map2Ref(batch[k]), k)))
    ELSE RunSlide(batch, k + 1, arr, cv)

RunBatch(batch, m) ==
    Strictly(LAMBDA v : RunSlide(v[1], 1, <<>>, v[2]), <<batch, NewCovs(m)>>)

-----------------------------------------------------------------------------
(* readBamFile: the goroutine of lines 307-365 *)

\* reader.Read() returns the next record: lines 349-359, up to the send of
\* line 354
ReadRecord ==
    /\ ~crashed
    /\ rPc = "read"
    /\ nRead < Len(file)
    /\ nRead' = nRead + 1
    /\ LET rec == file[nRead + 1]
           cur == IF currentRefID = -1 THEN rec.RefID ELSE currentRefID
       IN  IF rec.RefID # cur
           THEN IF Len(rRecords) > 0
                THEN /\ rPc' = "send"
                     /\ rRec' = rec
                     /\ currentRefID' = cur
                     /\ UNCHANGED rRecords
                ELSE /\ currentRefID' = rec.RefID
                     /\ rRecords' = Append(rRecords, rec)
                     /\ UNCHANGED <<rPc, rRec>>
           ELSE /\ currentRefID' = cur
                /\ rRecords' = Append(rRecords, rec)
                /\ UNCHANGED <<rPc, rRec>>
    /\ UNCHANGED <<tvars, cvars, maxl, svars, wPc, crashed, file, gvars, hvars, ovars>>

\* reader.Read() returns io.EOF (lines 343-347, 361-364)
ReadEOF ==
    /\ ~crashed
    /\ rPc = "read"
    /\ nRead = Len(file)
    /\ rPc' = IF Len(rRecords) > 0 THEN "sendlast" ELSE "closed"
    /\ UNCHANGED <<tvars, cvars, maxl, svars, wPc, crashed, file, currentRefID,
                   rRecords, rRec, nRead, gvars, hvars, ovars>>

\* the last batch is sent: defer close(c)
ReaderClose ==
    /\ ~crashed
    /\ rPc = "sendlast"
    /\ rRecords = <<>>
    /\ rPc' = "closed"
    /\ UNCHANGED <<tvars, cvars, maxl, svars, wPc, crashed, file, currentRefID,
                   rRecords, rRec, nRead, gvars, hvars, ovars>>

\* os.Open, the reader's constructor or reader.Read() fails with an error
\* other than io.EOF: panic(err) of line 312, 320, 327 or 345 runs the
\* deferred close(c) of line 308; the records gathered are not sent
ReadError ==
    /\ ~crashed
    /\ rPc = "read"
    /\ ~readErr
    /\ readErr' = TRUE
    /\ rPc' = "closed"
    /\ UNCHANGED <<tvars, cvars, maxl, svars, wPc, crashed, file, currentRefID,
                   rRecords, rRec, nRead, gvars, hvars, covsId, colCovs, out>>

\* the deferred calls are through: the panic ends the process
PanicExit ==
    /\ ~crashed
    /\ readErr
    /\ crashed' = TRUE
    /\ UNCHANGED <<tvars, cvars, maxl, svars, wPc, pvars>>

-----------------------------------------------------------------------------
(* The workers (lines 87-97), the closer (lines 99-104) and collect *)

\* the values of covs that are numbers, per lag, as a bag
Results(cv) ==
    [l \in 1..Len(cv) |->
        IF IsNaN(GetResult(cv[l])) THEN EmptyBag ELSE SetToBag({GetResult(cv[l])})]

\* Fold without the test of line 258
FoldEveryResult(mv, cv) ==
    [i \in 1..Len(mv) |->
        IF i <= Len(cv) THEN Append(mv[i], GetResult(cv[i])) ELSE mv[i]]

\* lines 255-261: collect folds one received covs into meanVars
Fold(mv, cv) ==
    [i \in 1..Len(mv) |->
        IF i <= Len(cv) /\ ~IsNaN(GetResult(cv[i]))
        THEN Append(mv[i], GetResult(cv[i]))
        ELSE mv[i]]

\* AllocCovs with one array per worker, allocated before the loop of line 89
AllocCovsPerWorker(w, n) == 0 - w

\* line 210: the array that the n-th call of calc allocates, in worker w
AllocCovs(w, n) == n

\* records := <-recordsChan meets c <- records (line 354 or 362); then
\* lines 90-92 start slideReads, compare and calc
WorkerRecv(w) ==
    /\ ~crashed
    /\ wPc[w] = "recv"
    /\ rPc \in {"send", "sendlast"}
    /\ rRecords # <<>>
    /\ records' = [records EXCEPT ![w] = rRecords]
    /\ sPc' = [sPc EXCEPT ![w] = "loop"]
    /\ sIdx' = [sIdx EXCEPT ![w] = 1]
    /\ mappedReadArr' = [mappedReadArr EXCEPT ![w] = <<>>]
    /\ totalDiscards' = [totalDiscards EXCEPT ![w] = 0]
    /\ totalUsed' = [totalUsed EXCEPT ![w] = 0]
    /\ cPc' = [cPc EXCEPT ![w] = "recv"]
    /\ reads' = [reads EXCEPT ![w] = <<>>]
    /\ cJ' = [cJ EXCEPT ![w] = 0]
    /\ covs' = [covs EXCEPT ![w] = NewCovs(maxl)]
    /\ emitted' = [emitted EXCEPT ![w] = <<>>]
    /\ wPc' = [wPc EXCEPT ![w] = "calc"]
    /\ IF rPc = "send"
       THEN /\ rRecords' = <<rRec>>
            /\ currentRefID' = rRec.RefID
            /\ rPc' = "read"
       ELSE /\ rRecords' = <<>>
            /\ UNCHANGED <<currentRefID, rPc>>
    /\ nSent' = nSent + 1
    /\ batchOf' = [batchOf EXCEPT ![w] = nSent + 1]
    /\ UNCHANGED foldOrder
    /\ sent' = Append(sent, rRecords)
    /\ covsId' = [covsId EXCEPT ![w] = AllocCovs(w, nSent + 1)]
    /\ UNCHANGED <<tvars, cvars, maxl, crashed, file, rRec, nRead, gvars, colCovs,
                   readErr, out>>

\* WorkerRecvClosed leaving without the send of line 95
WorkerLeaveSilently(w) ==
    /\ ~crashed
    /\ wPc[w] = "recv"
    /\ rPc = "closed"
    /\ wPc' = [wPc EXCEPT ![w] = "exit"]
    /\ UNCHANGED <<tvars, cvars, maxl, svars, crashed, pvars>>

\* recordsChan is closed and drained: the range loop of line 89 ends
WorkerRecvClosed(w) ==
    /\ ~crashed
    /\ wPc[w] = "recv"
    /\ rPc = "closed"
    /\ wPc' = [wPc EXCEPT ![w] = "senddone"]
    /\ UNCHANGED <<tvars, cvars, maxl, svars, crashed, pvars>>

\* covsChan <- covs (line 93) meets the receive of collect (line 254); a
\* send on the closed channel panics
WorkerSendCovs(w) ==
    /\ ~crashed
    /\ wPc[w] = "sendcovs"
    /\ IF covsClosed
       THEN /\ crashed' = TRUE
            /\ UNCHANGED <<wPc, colPc, colCovs>>
       ELSE /\ colPc = "range"
            /\ colCovs' = <<[id |-> covsId[w], batch |-> batchOf[w], cv |-> covs[w]]>>
            /\ colPc' = "fold"
            /\ wPc' = [wPc EXCEPT ![w] = "recv"]
            /\ UNCHANGED crashed
    /\ UNCHANGED <<tvars, cvars, maxl, svars, rvars, doneCount, covsClosed, meanVars,
                   hvars, covsId, readErr, out>>

\* the array that collect reads through the slice it received: the array
\* of a worker while that worker holds it, else as it was sent
Received ==
    IF \E w \in Workers : covsId[w] = colCovs[1].id
    THEN covs[CHOOSE w \in Workers : covsId[w] = colCovs[1].id]
    ELSE colCovs[1].cv

\* lines 255-261: collect folds the covs it received into meanVars
CollectFold ==
    /\ ~crashed
    /\ colPc = "fold"
    /\ meanVars' = Fold(meanVars, Received)
    /\ foldOrder' = Append(foldOrder, colCovs[1].batch)
    /\ colCovs' = <<>>
    /\ colPc' = "range"
    /\ UNCHANGED <<tvars, cvars, maxl, svars, wPc, crashed, rvars, doneCount, covsClosed,
                   nSent, batchOf, sent, covsId, readErr, out>>

\* done <- true (line 95) meets <-done (line 102)
WorkerSendDone(w) ==
    /\ ~crashed
    /\ wPc[w] = "senddone"
    /\ doneCount < NCPU
    /\ doneCount' = doneCount + 1
    /\ wPc' = [wPc EXCEPT ![w] = "exit"]
    /\ UNCHANGED <<tvars, cvars, maxl, svars, crashed, rvars, covsClosed, colPc,
                   meanVars, hvars, ovars>>

\* CloserClose after the first value received from done
CloserCloseEarly ==
    /\ ~crashed
    /\ doneCount >= 1
    /\ ~covsClosed
    /\ covsClosed' = TRUE
    /\ UNCHANGED <<tvars, cvars, maxl, svars, wPc, crashed, rvars, doneCount, colPc,
                   meanVars, hvars, ovars>>

\* the loop of lines 101-103 is over: defer close(covsChan)
CloserClose ==
    /\ ~crashed
    /\ doneCount = NCPU
    /\ ~covsClosed
    /\ covsClosed' = TRUE
    /\ UNCHANGED <<tvars, cvars, maxl, svars, wPc, crashed, rvars, doneCount, colPc,
                   meanVars, hvars, ovars>>

\* covsChan is closed and drained: collect returns meanVars (line 267)
CollectReturn ==
    /\ ~crashed
    /\ colPc = "range"
    /\ covsClosed
    /\ colPc' = "returned"
    /\ UNCHANGED <<tvars, cvars, maxl, svars, wPc, crashed, rvars, doneCount,
                   covsClosed, meanVars, hvars, ovars>>

\* the header line of write (line 278)
Header == "l,m,v,n,t,b"

\* lines 280-292: the row of lag i, of the values folded into meanVars[i];
\* their mean and variance are functions of vals
Row(mv, i) ==
    [l |-> i, vals |-> mv[i + 1], n |-> Len(mv[i + 1]),
     t |-> IF i = 0 THEN "Ks" ELSE "P2"]

\* write(meanVars, outFile) of line 107
Write ==
    /\ ~crashed
    /\ colPc = "returned"
    /\ out = <<>>
    /\ out' = <<Header>> \o [i \in 1..Len(meanVars) |-> Row(meanVars, i - 1)]
    /\ UNCHANGED <<tvars, cvars, maxl, svars, wPc, crashed, rvars, gvars, hvars,
                   covsId, colCovs, readErr>>

-----------------------------------------------------------------------------
(* Spec: the pipeline of main from line 82 to the return of collect *)

(* The alignment file holds at most MaxBatches references, one run of     *)
(* records each.  A run is one of: a single read (no pair is handed over); *)
(* two reads of 6 bases and a read past them (one pair, two sites); three  *)
(* reads of 3 bases, the last differing at the site, and a read past them  *)
(* (two pairs, one site each); a run that is not sorted by position, a     *)
(* read of 3 bases following a read that starts 3 positions after it.      *)
(* Between the runs, before the first and after the last of them there may *)
(* be a record that is not mapped.  --maxl is 0 or MaxL.                   *)

BaseRecord(ref, pos, sq) ==
    SamRecord(ref, MINMQ + 1, pos, <<[op |-> "M", len |-> Len(sq)]>>, sq,
              ConstSeq(Len(sq), MINBQ + 1))

Runs(ref) ==
    { << BaseRecord(ref, 0, <<"A", "A", "A">>) >>,
      << BaseRecord(ref, 0, ConstSeq(6, "A")),
         BaseRecord(ref, 0, ConstSeq(6, "A")),
         BaseRecord(ref, 7, <<"A">>) >>,
      << BaseRecord(ref, 0, <<"A", "A", "A">>),
         BaseRecord(ref, 0, <<"A", "A", "A">>),
         BaseRecord(ref, 0, <<"A", "A", "G">>),
         BaseRecord(ref, 4, <<"A">>) >>,
      << BaseRecord(ref, 3, <<"A">>),
         BaseRecord(ref, 0, <<"A", "A", "A">>),
         BaseRecord(ref, 5, <<"A">>) >> }

\* a run of one record that is not mapped: RefID -1, Pos -1, MapQ 0
UnmappedRun == << SamRecord(0 - 1, 0, 0 - 1, <<>>, <<"A">>, <<MINBQ + 1>>) >>

\* the number of maximal runs of records of one RefID
NumRuns(f) ==
    Cardinality({i \in 1..Len(f) : i = 1 \/ f[i].RefID # f[i - 1].RefID})

\* the number of references that have records in f
NumRefs(f) == Cardinality({f[i].RefID : i \in 1..Len(f)} \ {0 - 1})

\* the runs that may follow the records of f
NextRuns(f) ==
    Runs(NumRefs(f)) \cup
    (IF f # <<>> /\ f[Len(f)].RefID = 0 - 1 THEN {} ELSE {UnmappedRun})

\* the files of at most n runs
RECURSIVE Files(_)
Files(n) ==
    IF n = 0 THEN {<<>>}
    ELSE Files(n - 1) \cup
         UNION {{f \o r : r \in NextRuns(f)} :
                   f \in {g \in Files(n - 1) : NumRuns(g) = n - 1}}

Init ==
    /\ OffCompare
    /\ OffGenes
    /\ OffFit
    /\ maxl \in {0, MaxL}
    /\ StagesStarted({}, <<>>)
    /\ wPc = [w \in Workers |-> "recv"]
    /\ crashed = FALSE
    /\ file \in Files(MaxBatches)
    /\ rPc = "read"
    /\ currentRefID = -1
    /\ rRecords = <<>>
    /\ rRec = <<>>
    /\ nRead = 0
    /\ doneCount = 0
    /\ covsClosed = FALSE
    /\ colPc = "range"
    /\ meanVars = [l \in 1..maxl |-> <<>>]
    /\ nSent = 0
    /\ batchOf = [w \in Workers |-> 0]
    /\ foldOrder = <<>>
    /\ sent = <<>>
    /\ covsId = [w \in Workers |-> 0]
    /\ colCovs = <<>>
    /\ readErr = FALSE
    /\ out = <<>>

Reader == ReadRecord \/ ReadEOF \/ ReaderClose \/ ReadError \/ PanicExit

\* main, from the call of collect on (lines 106-107)
Main == CollectFold \/ CollectReturn \/ Write

Worker(w) ==
    \/ WorkerRecv(w)
    \/ WorkerRecvClosed(w)
    \/ Stages(w)
    \/ WorkerSendCovs(w)
    \/ WorkerSendDone(w)

Next ==
    \/ Reader
    \/ \E w \in Workers : Worker(w)
    \/ CloserClose
    \/ Main

Spec == Init /\ [][Next]_vars

\* The Go scheduler runs every goroutine that can take a step, and
\* completes every send that a receiver waits for.
Fairness ==
    /\ WF_vars(Reader)
    /\ \A w \in Workers : WF_vars(Worker(w))
    /\ WF_vars(CloserClose)
    /\ WF_vars(Main)

FairSpec == Spec /\ Fairness

-----------------------------------------------------------------------------
(* collect_genes: main (lines 15-57) and the goroutine that each call of   *)
(* readCorrResults starts (lines 83-100).  The channel c of line 82 is     *)
(* unbuffered and no statement of the program closes it.                   *)

GeneIDs == {"g1", "g2"}

\* a CorrResults record, by the field main reads
CorrResults(g) == [GeneID |-> g]

\* a correlation file: the records the decoder yields, and whether it then
\* fails (os.Open fails, line 84, or Decode returns an error that is not
\* io.EOF, line 92) instead of reaching the end of the file
CorrFiles ==
    {[recs |-> q, err |-> e] :
        q \in UNION {[1..n -> {CorrResults(g) : g \in GeneIDs}] : n \in 0..MaxCorrRecs},
        e \in BOOLEAN}

\* the value of samples after line 29, each sample with its file
SampleLists == UNION {[1..n -> CorrFiles] : n \in 0..MaxSamples}

\* lines 35-39: the Collector of rec.GeneID is made when not found, then
\* rec is added to it
Add(m, rec) ==
    [g \in DOMAIN m \cup {rec.GeneID} |->
        IF g = rec.GeneID
        THEN (IF g \in DOMAIN m THEN Append(m[g], rec) ELSE <<rec>>)
        ELSE m[g]]

\* the header line of line 49
GenesHeader == "l,m,v,n,t,g"

InitGenes ==
    /\ OffCompare
    /\ OffWorkers
    /\ OffPipeline
    /\ OffFit
    /\ samples \in SampleLists
    /\ gPc = "loop"
    /\ gIdx = 0
    /\ gRd = [i \in 1..Len(samples) |-> "off"]
    /\ gPos = [i \in 1..Len(samples) |-> 0]
    /\ collectorMap = <<>>
    /\ gOut = <<>>
    /\ gCrashed = FALSE

\* lines 30-33: main takes the next sample, readCorrResults makes the
\* channel and starts the goroutine, main enters the range loop
GenesNextSample ==
    /\ ~gCrashed
    /\ gPc = "loop"
    /\ gIdx < Len(samples)
    /\ gIdx' = gIdx + 1
    /\ gRd' = [gRd EXCEPT ![gIdx + 1] = "decode"]
    /\ gPc' = "range"
    /\ UNCHANGED <<samples, gPos, collectorMap, gOut, gCrashed>>
    /\ UNCHANGED <<cvars, maxl, svars, wPc, crashed, pvars, fitvars>>

\* lines 84-97: the goroutine of sample i opens the file or decodes the
\* next record; log.Panic on an error, break and return at io.EOF
GenesDecode(i) ==
    /\ ~gCrashed
    /\ i <= Len(samples)
    /\ gRd[i] = "decode"
    /\ IF gPos[i] < Len(samples[i].recs)
       THEN /\ gRd' = [gRd EXCEPT ![i] = "send"]
            /\ UNCHANGED gCrashed
       ELSE IF samples[i].err
            THEN /\ gCrashed' = TRUE
                 /\ UNCHANGED gRd
            ELSE /\ gRd' = [gRd EXCEPT ![i] = "exit"]
                 /\ UNCHANGED gCrashed
    /\ UNCHANGED <<samples, gPc, gIdx, gPos, collectorMap, gOut>>
    /\ UNCHANGED <<cvars, maxl, svars, wPc, crashed, pvars, fitvars>>

\* c <- rec (line 98) meets the receive of line 33; lines 34-39
GenesRecv ==
    /\ ~gCrashed
    /\ gPc = "range"
    /\ gRd[gIdx] = "send"
    /\ collectorMap' = Add(collectorMap, samples[gIdx].recs[gPos[gIdx] + 1])
    /\ gPos' = [gPos EXCEPT ![gIdx] = gPos[gIdx] + 1]
    /\ gRd' = [gRd EXCEPT ![gIdx] = "decode"]
    /\ UNCHANGED <<samples, gPc, gIdx, gOut, gCrashed>>
    /\ UNCHANGED <<cvars, maxl, svars, wPc, crashed, pvars, fitvars>>

\* lines 43-56, after the loop of line 30: the header and the results of
\* every Collector of collectorMap
GenesWrite ==
    /\ ~gCrashed
    /\ gPc = "loop"
    /\ gIdx = Len(samples)
    /\ gOut' = <<GenesHeader, collectorMap>>
    /\ gPc' = "written"
    /\ UNCHANGED <<samples, gIdx, gRd, gPos, collectorMap, gCrashed>>
    /\ UNCHANGED <<cvars, maxl, svars, wPc, crashed, pvars, fitvars>>

GenesMain == GenesNextSample \/ GenesRecv \/ GenesWrite

NextGenes == GenesMain \/ (\E i \in 1..MaxSamples : GenesDecode(i))

SpecGenes == InitGenes /\ [][NextGenes]_vars

\* main and every reading goroutine run whenever they can take a step
FairGenes ==
    /\ SpecGenes
    /\ WF_vars(GenesMain)
    /\ \A i \in 1..MaxSamples : WF_vars(GenesDecode(i))

-----------------------------------------------------------------------------
(* fitExp (fit_genomes.go, lines 62-106): the goroutine that sends the     *)
(* jobs, ncpu workers, the goroutine that closes fitResChan, and the loop  *)
(* of the caller.  jobs, done and fitResChan are unbuffered.               *)

\* a CovResult, by the fields fitExp reads; cp is the capacity of Ct
CovResult(ks, idx, ct, cp) == [Ks |-> ks, CtIndices |-> idx, Ct |-> ct, CtCap |-> cp]

CovResults ==
    {CovResult(k, [i \in 1..n |-> i - 1], [i \in 1..m |-> 10 * k + i], c) :
        k \in 1..MaxKs, n \in 1..MaxCt, m \in 1..MaxCt, c \in 1..MaxCt} \cap
    {r \in [Ks : 1..MaxKs, CtIndices : Seq(Nat), Ct : Seq(Nat), CtCap : 1..MaxCt] :
        r.CtCap >= Len(r.Ct)}

\* fit.FitExp: the three parameters it returns are functions of its
\* arguments
FitExp(xdata, ydata) ==
    << <<"b0", xdata, ydata>>, <<"b1", xdata, ydata>>, <<"b2", xdata, ydata>> >>

\* lines 80-83 index CtIndices at fitStart..fitEnd-1 and slice Ct at
\* fitStart:fitEnd without a panic
FitRangeOk(r, fs, fe) ==
    /\ (fs < fe => (0 <= fs /\ fe <= Len(r.CtIndices)))
    /\ 0 <= fs
    /\ fs <= fe
    /\ fe <= r.CtCap

\* lines 77-87, for a job whose range is in bounds; the elements of Ct
\* between its length and its capacity read as 0
FitJob(r, fs, fe) ==
    LET xdata == [i \in 1..(fe - fs) |-> r.CtIndices[fs + i]]
        ydata == [i \in 1..(fe - fs) |->
                     IF fs + i <= Len(r.Ct) THEN r.Ct[fs + i] ELSE 0]
        par == FitExp(xdata, ydata)
    IN  [Ks |-> r.Ks, B0 |-> par[1], B1 |-> par[2], B2 |-> par[3]]

InitFit ==
    /\ OffCompare
    /\ OffWorkers
    /\ OffPipeline
    /\ OffGenes
    /\ results \in UNION {[1..n -> CovResults] : n \in 0..MaxJobs}
    /\ fitStart \in 0..1
    /\ fitEnd \in 0..MaxCt
    /\ fJob = 0
    /\ jobsClosed = FALSE
    /\ fPc = [w \in Workers |-> "recv"]
    /\ fr = [w \in Workers |-> <<>>]
    /\ fDone = 0
    /\ fitResClosed = FALSE
    /\ fMain = "range"
    /\ fitResults = <<>>
    /\ fSrc = <<>>
    /\ fCrashed = FALSE

\* jobs <- r (line 67) meets the receive of line 76 in worker w, which
\* then runs lines 77-87
FitRecvJob(w) ==
    /\ ~fCrashed
    /\ fPc[w] = "recv"
    /\ ~jobsClosed
    /\ fJob < Len(results)
    /\ fJob' = fJob + 1
    /\ IF FitRangeOk(results[fJob + 1], fitStart, fitEnd)
       THEN /\ fr' = [fr EXCEPT ![w] =
                        <<[res |-> FitJob(results[fJob + 1], fitStart, fitEnd),
                           job |-> fJob + 1]>>]
            /\ fPc' = [fPc EXCEPT ![w] = "send"]
            /\ UNCHANGED fCrashed
       ELSE /\ fCrashed' = TRUE
            /\ UNCHANGED <<fr, fPc>>
    /\ UNCHANGED <<results, fitStart, fitEnd, jobsClosed, fDone, fitResClosed,
                   fMain, fitResults, fSrc>>
    /\ UNCHANGED <<cvars, maxl, svars, wPc, crashed, pvars, genevars>>

\* the loop of lines 66-68 is over: defer close(jobs)
FitCloseJobs ==
    /\ ~fCrashed
    /\ fMain # "off"
    /\ fJob = Len(results)
    /\ ~jobsClosed
    /\ jobsClosed' = TRUE
    /\ UNCHANGED <<results, fitStart, fitEnd, fJob, fPc, fr, fDone, fitResClosed,
                   fMain, fitResults, fSrc, fCrashed>>
    /\ UNCHANGED <<cvars, maxl, svars, wPc, crashed, pvars, genevars>>

\* the range of line 76 ends in worker w: jobs is closed
FitRecvClosed(w) ==
    /\ ~fCrashed
    /\ fPc[w] = "recv"
    /\ jobsClosed
    /\ fPc' = [fPc EXCEPT ![w] = "senddone"]
    /\ UNCHANGED <<results, fitStart, fitEnd, fJob, jobsClosed, fr, fDone,
                   fitResClosed, fMain, fitResults, fSrc, fCrashed>>
    /\ UNCHANGED <<cvars, maxl, svars, wPc, crashed, pvars, genevars>>

\* fitResChan <- fr (line 88) meets the receive of line 101; line 102.
\* A send on the closed channel panics.
FitSendResult(w) ==
    /\ ~fCrashed
    /\ fPc[w] = "send"
    /\ IF fitResClosed
       THEN /\ fCrashed' = TRUE
            /\ UNCHANGED <<fPc, fr, fitResults, fSrc>>
       ELSE /\ fMain = "range"
            /\ fitResults' = Append(fitResults, fr[w][1].res)
            /\ fSrc' = Append(fSrc, fr[w][1].job)
            /\ fr' = [fr EXCEPT ![w] = <<>>]
            /\ fPc' = [fPc EXCEPT ![w] = "recv"]
            /\ UNCHANGED fCrashed
    /\ UNCHANGED <<results, fitStart, fitEnd, fJob, jobsClosed, fDone,
                   fitResClosed, fMain>>
    /\ UNCHANGED <<cvars, maxl, svars, wPc, crashed, pvars, genevars>>

\* done <- true (line 90) meets <-done (line 97)
FitSendDone(w) ==
    /\ ~fCrashed
    /\ fPc[w] = "senddone"
    /\ fDone < NCPU
    /\ fDone' = fDone + 1
    /\ fPc' = [fPc EXCEPT ![w] = "exit"]
    /\ UNCHANGED <<results, fitStart, fitEnd, fJob, jobsClosed, fr, fitResClosed,
                   fMain, fitResults, fSrc, fCrashed>>
    /\ UNCHANGED <<cvars, maxl, svars, wPc, crashed, pvars, genevars>>

\* the loop of lines 96-98 is over: defer close(fitResChan)
FitCloseResults ==
    /\ ~fCrashed
    /\ fDone = NCPU
    /\ ~fitResClosed
    /\ fitResClosed' = TRUE
    /\ UNCHANGED <<results, fitStart, fitEnd, fJob, jobsClosed, fPc, fr, fDone,
                   fMain, fitResults, fSrc, fCrashed>>
    /\ UNCHANGED <<cvars, maxl, svars, wPc, crashed, pvars, genevars>>

\* the range of line 101 ends: fitResChan is closed; line 105
FitReturn ==
    /\ ~fCrashed
    /\ fMain = "range"
    /\ fitResClosed
    /\ fMain' = "returned"
    /\ UNCHANGED <<results, fitStart, fitEnd, fJob, jobsClosed, fPc, fr, fDone,
                   fitResClosed, fitResults, fSrc, fCrashed>>
    /\ UNCHANGED <<cvars, maxl, svars, wPc, crashed, pvars, genevars>>

FitWorker(w) ==
    FitRecvJob(w) \/ FitRecvClosed(w) \/ FitSendResult(w) \/ FitSendDone(w)

NextFit ==
    \/ FitCloseJobs
    \/ (\E w \in Workers : FitWorker(w))
    \/ FitCloseResults
    \/ FitReturn

SpecFit == InitFit /\ [][NextFit]_vars

\* every goroutine of fitExp runs whenever it can take a step
FairFit ==
    /\ SpecFit
    /\ WF_vars(FitCloseJobs)
    /\ \A w \in Workers : WF_vars(FitWorker(w))
    /\ WF_vars(FitCloseResults)
    /\ WF_vars(FitReturn)

-----------------------------------------------------------------------------
(* Properties of compareMappedReads and calc (SpecCompare) *)

Compared == ph \in {"compared", "done"}

\* the reference positions covered by both reads
Common(a, b) ==
    {p \in a.Pos..(a.Pos + ReadLen(a) - 1) : b.Pos <= p /\ p < b.Pos + ReadLen(b)}

ThirdPositions(a, b) == {p \in Common(a, b) : (p + 1) % 3 = 0}

\* the profile's entries are exactly the positions of P, in increasing order
ProfileCovers(P) ==
    /\ Len(subProfile.Profile) = Cardinality(P)
    /\ \A k \in 1..Len(subProfile.Profile) : subProfile.Profile[k].pos \in P
    /\ \A k \in 1..(Len(subProfile.Profile) - 1) :
           subProfile.Profile[k].pos < subProfile.Profile[k + 1].pos

\* the codons ending at entry k of the profile, in a and in b
CodonOfA(k) ==
    LET i == subProfile.Profile[k].pos - pa.Pos IN Slice(pa.Seq, i - 2, i + 1)
CodonOfB(k) ==
    LET j == subProfile.Profile[k].pos - pb.Pos IN Slice(pb.Seq, j - 2, j + 1)
SiteOfA(k) == subProfile.Profile[k].pos - pa.Pos + 1
SiteOfB(k) == subProfile.Profile[k].pos - pb.Pos + 1

\* C6 (as claimed): for every pair of entries i <= j of the profile, calc
\* increments exactly one accumulator, the one indexed by the distance
\* between the reference positions of the two sites, when both entries are
\* non-missing and that distance is below maxl, and none otherwise.
C6_LagIsReferenceDistance ==
    ph = "done" =>
        \A i \in 0..(Len(subProfile.Profile) - 1) :
            \A j \in i..(Len(subProfile.Profile) - 1) :
                LET ei == subProfile.Profile[i + 1]
                    ej == subProfile.Profile[j + 1]
                    dist == ej.pos - ei.pos
                    hits == {k \in 1..Len(incLog) :
                                incLog[k][1] = i /\ incLog[k][2] = j}
                IN  IF ei.d # NaN /\ ej.d # NaN /\ dist < pmaxl
                    THEN /\ Cardinality(hits) = 1
                         /\ \A k \in hits : incLog[k][3] = dist
                    ELSE hits = {}

\* C7 (as claimed): the profile of two overlapping reads has exactly one
\* entry for each third codon position covered by both reads, in
\* increasing order, and no other entry.
C7_EveryCommonThirdPosition ==
    (Compared /\ pb.Pos <= pa.Pos + ReadLen(pa)) =>
        ProfileCovers(ThirdPositions(pa, pb))

\* C7 (amended): the profile has exactly one entry for each third codon
\* position covered by both reads that lies at offset 2 or more of b (so
\* that b holds the whole codon ending there), in increasing order, and no
\* other entry.
C7_CommonThirdPositionsPastFirstCodon ==
    (Compared /\ pb.Pos <= pa.Pos + ReadLen(pa)) =>
        ProfileCovers({p \in ThirdPositions(pa, pb) : p - pb.Pos > 1})

\* C7 witness: a compared pair with a common third position inside the
\* first codon of b (left out) and a later one (in the profile).
C7_Witness ==
    /\ Compared
    /\ pb.Pos <= pa.Pos + ReadLen(pa)
    /\ \E p \in ThirdPositions(pa, pb) : p - pb.Pos <= 1
    /\ Len(subProfile.Profile) >= 1

\* C8 (as claimed): an evaluated position whose codon is absent from the
\* genetic-code table in either read is recorded as missing.
C8_AbsentCodonIsMissing ==
    Compared =>
        \A k \in 1..Len(subProfile.Profile) :
            (~InTable(CodonOfA(k)) \/ ~InTable(CodonOfB(k)))
                => subProfile.Profile[k].d = NaN

\* C9 (as claimed): an observation is non-missing exactly when both site
\* bases are in {A, C, G, T}, both base qualities exceed MINBQ and the two
\* codons map to the same amino acid; it is then 1 if the site bases
\* differ and 0 if they are equal.
C9_ObservationRule ==
    Compared =>
        \A k \in 1..Len(subProfile.Profile) :
            LET x == pa.Seq[SiteOfA(k)]
                y == pb.Seq[SiteOfB(k)]
                sameAA == /\ InTable(CodonOfA(k))
                          /\ InTable(CodonOfB(k))
                          /\ TableLookup(CodonOfA(k)) = TableLookup(CodonOfB(k))
                valid == /\ x \in {"A", "C", "G", "T"}
                         /\ y \in {"A", "C", "G", "T"}
                         /\ pa.Qual[SiteOfA(k)] > MINBQ
                         /\ pb.Qual[SiteOfB(k)] > MINBQ
                         /\ sameAA
                d == subProfile.Profile[k].d
            IN  /\ (d # NaN) <=> valid
                /\ d # NaN => d = (IF x # y THEN 1 ELSE 0)

-----------------------------------------------------------------------------
(* Properties of slideReads and compare (SpecPairer) *)

\* the span of record k of the batch of worker w, as slideReads projects it
RecPos(w, k) == records[w][k].Pos
RecLen(w, k) == Len(Map2Ref(records[w][k])[1])
Overlap(w, i, j) == RecPos(w, j) <= RecPos(w, i) + RecLen(w, i)

\* how often the pair <<i, j>> was handed to compareMappedReads
Handed(w, i, j) ==
    Cardinality({k \in 1..Len(emitted[w]) : emitted[w][k] = <<i, j>>})

\* the records of the batch that pass the filter are sorted by position
SortedReads(w) ==
    \A i, j \in 1..Len(records[w]) :
        (i < j /\ Passes(records[w][i]) /\ Passes(records[w][j]))
            => RecPos(w, i) <= RecPos(w, j)

\* C1 (as claimed): once slideReads and compare are through a
\* position-sorted batch, every pair of reads (a, b), a before b, with
\* b.Pos <= a.Pos + a.Len() has been handed to compareMappedReads exactly
\* once.
C1_EveryOverlappingPairOnce ==
    \A w \in Workers :
        (cPc[w] = "closed" /\ SortedReads(w)) =>
            \A i, j \in 1..Len(records[w]) :
                (/\ i < j
                 /\ Passes(records[w][i])
                 /\ Passes(records[w][j])
                 /\ Overlap(w, i, j)) => Handed(w, i, j) = 1

\* C2: for any batch, sorted or not, no pair (a, b) with
\* b.Pos > a.Pos + a.Len() is ever handed to compareMappedReads.
C2_NoPairPastSpan ==
    \A w \in Workers :
        \A k \in 1..Len(emitted[w]) :
            Overlap(w, emitted[w][k][1], emitted[w][k][2])

\* C2 witness: compare went through a window in which it handed over a
\* pair and then met a read that starts past the span of the head.
C2_Witness ==
    \E w \in Workers :
        /\ cPc[w] = "recv"
        /\ emitted[w] # <<>>
        /\ \E k \in 2..Len(reads[w]) :
               reads[w][k].Pos > reads[w][1].Pos + ReadLen(reads[w][1])

\* C10: no read of a record with mapping quality below MINMQ is in the
\* window of slideReads or in a window sent to compare; every such record
\* the loop has passed is counted in totalDiscards and none in totalUsed.
C10_LowMapQNeverInWindow ==
    \A w \in Workers :
        /\ \A k \in 1..Len(mappedReadArr[w]) :
               records[w][mappedReadArr[w][k].rec].MapQ >= MINMQ
        /\ \A k \in 1..Len(reads[w]) :
               records[w][reads[w][k].rec].MapQ >= MINMQ
        /\ totalDiscards[w] >=
               Cardinality({k \in 1..(sIdx[w] - 1) : records[w][k].MapQ < MINMQ})
        /\ totalUsed[w] <=
               Cardinality({k \in 1..(sIdx[w] - 1) : records[w][k].MapQ >= MINMQ})

\* C10 witness: the loop has passed a record below MINMQ, has counted a
\* discard and holds a read in the window.
C10_Witness ==
    \E w \in Workers :
        /\ \E k \in 1..(sIdx[w] - 1) : records[w][k].MapQ < MINMQ
        /\ totalDiscards[w] > 0
        /\ mappedReadArr[w] # <<>>

\* the record has one quality per base and its operations step over no
\* more bases than it has
WellFormed(r) == Len(r.Qual) = Len(r.Seq) /\ Consumed(r.Cigar) <= Len(r.Seq)

\* C13: every MappedRead in the window of slideReads, or in a window sent
\* to compare, that Map2Ref made of a record with one quality per base and
\* enough bases for its operations, has as many qualities as bases.
C13_BasesAndQualitiesOfEqualLength ==
    \A w \in Workers :
        \A m \in Range(mappedReadArr[w]) \cup Range(reads[w]) :
            WellFormed(records[w][m.rec]) => Len(m.Seq) = Len(m.Qual)

\* C13 witness: the window holds a read with a base of the record and a
\* deleted position, whose length is not that of the record.
C13_Witness ==
    \E w \in Workers :
        \E m \in Range(mappedReadArr[w]) :
            /\ WellFormed(records[w][m.rec])
            /\ \E k \in 1..Len(m.Seq) : m.Seq[k] = "*" /\ m.Qual[k] = 0
            /\ \E k \in 1..Len(m.Seq) : m.Seq[k] = "A"
            /\ Len(m.Seq) # Len(records[w][m.rec].Seq)

\* the pairs compare hands over from the window arr (lines 147-157)
PairsOf(arr) ==
    {<<arr[1].rec, arr[j].rec>> : j \in {j \in 2..Len(arr) :
                                       \A i \in 2..j : ~PastSpan(arr[1], arr[i])}}

\* the pairer that evicts, and pairs, every leading read of the window
\* whose span ended before the incoming read: the window and the pairs
RECURSIVE EvictAll(_, _)
EvictAll(arr, acc) ==
    IF Len(arr) > 0 /\ Expired(arr[1], arr[Len(arr)])
    THEN Strictly(LAMBDA v : EvictAll(v[1], v[2]),
                  <<Tail(arr), acc \cup PairsOf(arr)>>)
    ELSE <<arr, acc>>

\* that pairer on the records of batch from k on
RECURSIVE MultiEvict(_, _, _)
MultiEvict(batch, k, st) ==
    IF k > Len(batch) THEN st[2]
    ELSE IF Passes(batch[k])
    THEN Strictly(LAMBDA v : MultiEvict(batch, k + 1, v),
                  EvictAll(Append(st[1], WindowRead(batch[k].Pos, Map2Ref(batch[k]), k)),
                           st[2]))
    ELSE MultiEvict(batch, k + 1, st)

\* C14 (as claimed): once slideReads and compare are through a
\* position-sorted batch, the set of pairs handed to compareMappedReads is
\* the set of pairs of the pairer that on every incoming read evicts and
\* pairs every leading read whose span ended before that read.
C14_SamePairsAsMultiEviction ==
    \A w \in Workers :
        (cPc[w] = "closed" /\ SortedReads(w)) =>
            Range(emitted[w]) = MultiEvict(records[w], 1, <<<<>>, {}>>)

\* the reference positions that record k of the batch of worker w covers
Span(w, k) == RecPos(w, k)..(RecPos(w, k) + RecLen(w, k) - 1)

\* C15 (as claimed): the reference spans of every pair that compare hands
\* to compareMappedReads share at least one base position, so that the
\* overlap region compareMappedReads iterates is not empty.
C15_EmittedPairsShareABase ==
    \A w \in Workers :
        \A k \in 1..Len(emitted[w]) :
            Span(w, emitted[w][k][1]) \cap Span(w, emitted[w][k][2]) # {}

\* C19 (as claimed): of the records the loop of slideReads has passed,
\* those discarded are exactly the ones with mapping quality below MINMQ
\* or above the upper bound (50); a record with mapping quality MINMQ is
\* appended to the window and counted in totalUsed.
C19_ExcludedIffOutOfRange ==
    \A w \in Workers :
        /\ totalDiscards[w] =
               Cardinality({k \in 1..(sIdx[w] - 1) :
                               \/ records[w][k].MapQ < MINMQ
                               \/ records[w][k].MapQ > 50})
        /\ totalUsed[w] =
               Cardinality({k \in 1..(sIdx[w] - 1) :
                               /\ records[w][k].MapQ >= MINMQ
                               /\ records[w][k].MapQ <= 50})

-----------------------------------------------------------------------------
(* Properties of the pipeline (Spec, FairSpec) *)

\* the bag of the elements of a sequence
SeqToBag(q) ==
    [v \in Range(q) |-> Cardinality({k \in 1..Len(q) : q[k] = v})]

\* how often collect folded the covs of batch b
Folded(b) == Cardinality({k \in 1..Len(foldOrder) : foldOrder[k] = b})

\* per lag, the bag of the values that the batches bs yield when each is run
\* alone through lines 90-92
RECURSIVE Expected(_)
Expected(bs) ==
    IF bs = <<>> THEN [l \in 1..maxl |-> EmptyBag]
    ELSE LET init == Expected(SubSeq(bs, 1, Len(bs) - 1))
             last == Results(RunBatch(bs[Len(bs)], maxl))
         IN  [l \in 1..maxl |-> init[l] (+) last[l]]

\* C3: when collect returns, the values folded into each lag's
\* accumulator are, as a bag, the values that the batches of the file
\* yield, whatever the interleaving of the workers and the order in which
\* their results reached collect.
C3_FinalStateIndependentOfOrder ==
    colPc = "returned" =>
        \A l \in 1..maxl : SeqToBag(meanVars[l]) = Expected(sent)[l]

\* C3 witness: collect has returned after folding two different values of
\* one lag that arrived in the opposite order of their batches.
C3_Witness ==
    /\ colPc = "returned"
    /\ \E i, j \in 1..Len(foldOrder) :
           /\ i < j
           /\ foldOrder[i] > foldOrder[j]
    /\ \E l \in 1..maxl :
           \E i, j \in 1..Len(meanVars[l]) :
               meanVars[l][i][1] * meanVars[l][j][2] # meanVars[l][j][1] * meanVars[l][i][2]

\* C4: when collect returns, the reader has closed the batch channel,
\* every batch it sent has been received by a worker and its covs received
\* and folded by collect exactly once, and no worker still holds a batch
\* or a result.
C4_EveryBatchFoldedOnce ==
    colPc = "returned" =>
        /\ rPc = "closed"
        /\ Len(sent) = nSent
        /\ \A b \in 1..nSent : Folded(b) = 1
        /\ Len(foldOrder) = nSent
        /\ colCovs = <<>>
        /\ \A w \in Workers : wPc[w] = "exit"

\* C4 witness: collect has returned after every worker received a batch.
C4_Witness ==
    /\ colPc = "returned"
    /\ nSent >= 2
    /\ \A w \in Workers : batchOf[w] # 0

Done ==
    /\ rPc = "closed"
    /\ \A w \in Workers :
           /\ wPc[w] = "exit"
           /\ sPc[w] \in {"off", "closed"}
           /\ cPc[w] \in {"off", "closed"}
    /\ covsClosed
    /\ colPc = "returned"

SortedFile ==
    \A i, j \in 1..Len(file) :
        (i < j /\ file[i].RefID = file[j].RefID) => file[i].Pos <= file[j].Pos

Delivered(b) ==
    \/ b = 0
    \/ Folded(b) = 1
    \/ (colCovs # <<>> /\ colCovs[1].batch = b)

\* C11: with maxl = 0 the accumulator arrays of calc and of collect are
\* empty at every step, for any input, and write, when it runs, emits the
\* header line and no row.
C11_MaxlZeroNoRows ==
    maxl = 0 =>
        /\ \A w \in Workers : covs[w] = <<>>
        /\ (colCovs # <<>> => colCovs[1].cv = <<>>)
        /\ meanVars = <<>>
        /\ (out # <<>> => out = <<Header>>)

\* C11 witness: with maxl = 0, write has run after calc consumed the
\* profile of a pair.
C11_Witness ==
    /\ maxl = 0
    /\ out = <<Header>>
    /\ \E w \in Workers : emitted[w] # <<>>

\* C12 (as claimed): once opening or reading the input has failed, write
\* is never executed: there is no output file.
C12_NoOutputAfterReadError == readErr => out = <<>>

\* C16: covsChan is closed only after all workers have signalled done, a
\* worker signals done only after its last covs has been received by
\* collect, and no worker is sending, or yet to send, on the closed
\* channel.
C16_ClosedOnlyAfterAllDone ==
    /\ covsClosed => (doneCount = NCPU /\ \A w \in Workers : wPc[w] = "exit")
    /\ \A w \in Workers : wPc[w] \in {"senddone", "exit"} => Delivered(batchOf[w])

\* C16 witness: covsChan is closed after every worker has sent a result.
C16_Witness ==
    /\ covsClosed
    /\ \A w \in Workers : batchOf[w] # 0

\* C17: a worker that waits for its next batch has its slideReads and
\* compare goroutines finished and the covs of its previous batch
\* received by collect; at most NCPU batches have been taken without their
\* result having reached collect.
C17_OneBatchPerWorker ==
    /\ \A w \in Workers :
           wPc[w] = "recv" =>
               /\ sPc[w] \in {"off", "closed"}
               /\ cPc[w] \in {"off", "closed"}
               /\ Delivered(batchOf[w])
    /\ Cardinality({b \in 1..nSent : ~Delivered(b)}) <= NCPU

\* C17 witness: one worker runs calc on the second batch, which it
\* received after the first; the other has received none.
C17_Witness ==
    /\ nSent = 2
    /\ \E w \in Workers :
           /\ batchOf[w] = 2
           /\ wPc[w] = "calc"
           /\ sPc[w] = "loop"
           /\ \A v \in Workers \ {w} : batchOf[v] = 0

\* collect reads an array that the calc of a worker may write
Race ==
    /\ colPc = "fold"
    /\ \E w \in Workers : (wPc[w] = "calc" /\ covsId[w] = colCovs[1].id)

\* a step changes the array of a worker only if that worker is in calc or
\* enters it, and meanVars only if collect folds
OwnersWrite ==
    /\ \A w \in Workers :
           (covs'[w] # covs[w]) => (wPc[w] = "calc" \/ wPc'[w] = "calc")
    /\ (meanVars' # meanVars) => (colPc = "fold")

\* C18: collect never reads an array while the calc of a worker writes it;
\* the array of a worker changes only while that worker is in calc or
\* allocates it, and meanVars changes only in a step of collect.
C18_NoSharedAccumulator ==
    /\ []~Race
    /\ [][OwnersWrite]_vars

\* C18 witness: collect reads the array it received while a worker has
\* written to the array of its next batch.
C18_Witness ==
    /\ colPc = "fold"
    /\ colCovs[1].cv # NewCovs(maxl)
    /\ \E w \in Workers :
           /\ wPc[w] = "calc"
           /\ covs[w] # NewCovs(maxl)

\* the concatenation of the batches bs
RECURSIVE Concat(_)
Concat(bs) == IF bs = <<>> THEN <<>> ELSE Head(bs) \o Concat(Tail(bs))

\* C20 (as claimed): the batches sent are the maximal runs of records of
\* one reference id: each is non-empty and of one id (-1 included), two
\* that follow each other differ in id, their concatenation is the
\* records read so far without those still gathered, and is the file once
\* the reader has closed the channel after reading to the end.
C20_BatchesAreMaximalRuns ==
    /\ \A b \in 1..Len(sent) :
           /\ sent[b] # <<>>
           /\ \A i, j \in 1..Len(sent[b]) : sent[b][i].RefID = sent[b][j].RefID
    /\ \A b \in 1..(Len(sent) - 1) : sent[b][1].RefID # sent[b + 1][1].RefID
    /\ \E n \in 0..Len(file) : Concat(sent) = SubSeq(file, 1, n)
    /\ (rPc = "closed" /\ ~readErr) => Concat(sent) = file

\* the batches, of those received by the workers, whose covs[l - 1] counted
\* at least one pair when calc returned
Contributing(l) ==
    {b \in 1..Len(sent) : RunBatch(sent[b], maxl)[l].n > 0}

\* C21: when collect has returned, for every lag below maxl the number of
\* values folded into meanVars at that lag is the number of batches in
\* which at least one pair was accumulated at that lag, and so never more
\* than the number of batches.
C21_CountIsContributingBatches ==
    colPc = "returned" =>
        \A l \in 1..maxl :
            /\ Len(meanVars[l]) = Cardinality(Contributing(l))
            /\ Len(meanVars[l]) <= Len(sent)

\* C21 witness: collect has returned and at some lag one batch contributed
\* a value and another batch, with n = 0 at that lag, none.
C21_Witness ==
    /\ colPc = "returned"
    /\ Len(sent) >= 2
    /\ \E l \in 1..maxl :
           /\ Len(meanVars[l]) >= 1
           /\ Len(meanVars[l]) < Len(sent)

\* C22 (as claimed): once the goroutine of a sample has delivered its last
\* record and returned, main leaves the range loop of that sample, and
\* after the last sample it writes the output file (unless a read error
\* ended the run).
C22_MainWritesAfterLastRecord ==
    /\ \A i \in 1..MaxSamples :
           ((i <= Len(samples) /\ gRd[i] = "exit")
                ~> (gIdx > i \/ gPc = "written"))
    /\ <>(gPc = "written" \/ gCrashed)

\* fitExp has returned one FitResult per job, each with the Ks of its job
OnePerInput ==
    /\ Len(fitResults) = Len(results)
    /\ Len(fSrc) = Len(results)
    /\ \A j \in 1..Len(results) :
           Cardinality({k \in 1..Len(fSrc) : fSrc[k] = j}) = 1
    /\ \A k \in 1..Len(fitResults) :
           /\ fitResults[k].Ks = results[fSrc[k]].Ks
           /\ fitResults[k] = FitJob(results[fSrc[k]], fitStart, fitEnd)

\* fitResChan is closed only after every worker has sent its last result
ClosedAfterLastResult ==
    fitResClosed => (fDone = NCPU /\ \A w \in Workers : fPc[w] = "exit")

\* C23 (as claimed): for every input fitExp returns, with one FitResult per
\* CovResult of the input, in any order, each with the Ks of its CovResult;
\* fitResChan is closed only after every worker has sent its last result.
C23_FitExpReturnsOnePerInput ==
    /\ <>(fMain = "returned")
    /\ [](fMain = "returned" => OnePerInput)
    /\ []ClosedAfterLastResult

====
